---- MODULE Spec2Model ----
(***************************************************************************)
(* FileHandler (src/FileHandler.ts): a readiness-gated FIFO task queue in  *)
(* front of the browser's asynchronous FileSystem API.                     *)
(*                                                                         *)
(* JavaScript runs one handler at a time, so every action below is one     *)
(* whole handler: a public call made by the page (readFile, writeFile,     *)
(* appendToFile), the requestFileSystem callback (initFs), or one backend  *)
(* completion callback, each together with every synchronous call it       *)
(* makes: BehaviorSubject.next, the subscriber of the constructor,         *)
(* deQueueTask, the task body, and the caller's continuation, which may    *)
(* itself call readFile/writeFile/appendToFile.                            *)
(*                                                                         *)
(* The browser API is the environment.  Its events follow the File API:    *)
(* getFile and createWriter call exactly one of their two callbacks;       *)
(* fileEntry.file is given no error callback by the code, so its failure   *)
(* calls nothing; FileReader fires loadend after a load and after an       *)
(* error; FileWriter fires writeend after a write and after an error, and  *)
(* fires error before writeend when the write or the truncate fails.       *)
(***************************************************************************)
EXTENDS Integers, Sequences, FiniteSets, TLC

\* Bounds of the model.
MaxTasks == 3        \* tasks submitted in one run
MaxCbSubmits == 1    \* tasks one continuation submits when it is invoked

Ops == {"read", "write", "append"}

\* Every call names the same file.  writeFile writes WriteText, appendToFile
\* appends AppendText; the file system is fresh, or holds the file with
\* OldText from an earlier session.
WriteText == <<"A">>
AppendText == <<"B">>
OldText == <<"X", "Y">>
Absent == [exists |-> FALSE, text |-> <<>>]
Present(text) == [exists |-> TRUE, text |-> text]

VARIABLES
  fs,                  \* this.fs is set (the DOMFileSystem handle is stored)
  tasksProcessSubject, \* current value of the BehaviorSubject<boolean>
  tasksQueue,          \* this.tasksQueue: task ids, head first
  submitted,           \* submitted[t]: the operation of the t-th task created
  pending,             \* backend calls in flight: records [t, step]
  threw,               \* an uncaught TypeError was raised
  file,                \* the file in the browser's file system
  wpos,                \* wpos[t]: position of the FileWriter of task t
  snap,                \* snap[t]: text of the File handed to the reader of task t
  \* History of the run, kept for the properties only; no handler reads it.
  started,             \* task ids in the order their bodies were invoked
  conts,               \* conts[t]: continuations of task t invoked so far, in order
  signalled,           \* signalled[t]: number of next(true) made by task t
  failed,              \* failed[t]: backend steps of task t that failed
  step,                \* events of the most recent handler, oldest first
  delivered            \* results handed to onloadend in the most recent handler

vars == <<fs, tasksProcessSubject, tasksQueue, submitted, pending, threw,
          file, wpos, snap, started, conts, signalled, failed, step, delivered>>

\* The state as one value, so that a handler is a composition of functions.
St == [fs |-> fs, sig |-> tasksProcessSubject, q |-> tasksQueue,
       sub |-> submitted, pend |-> pending, threw |-> threw,
       file |-> file, wpos |-> wpos, snap |-> snap, delivered |-> delivered,
       started |-> started, conts |-> conts, signalled |-> signalled,
       failed |-> failed, step |-> step]

\* The state at the entry of a handler.
Enter == [St EXCEPT !.step = <<>>, !.delivered = <<>>]

Commit(s) ==
  /\ fs' = s.fs
  /\ tasksProcessSubject' = s.sig
  /\ tasksQueue' = s.q
  /\ submitted' = s.sub
  /\ pending' = s.pend
  /\ threw' = s.threw
  /\ file' = s.file
  /\ wpos' = s.wpos
  /\ snap' = s.snap
  /\ delivered' = s.delivered
  /\ started' = s.started
  /\ conts' = s.conts
  /\ signalled' = s.signalled
  /\ failed' = s.failed
  /\ step' = s.step

\* Events: [k |-> "submit", t, a |-> operation, b |-> "page" or "cont"]
\*         [k |-> "next", t, a |-> new value, b |-> value before the call]
\*         [k |-> "start", t, a |-> "fast" or "sub"]   the body of t is invoked,
\*             deQueueTask being called by addTaskToQueue or by the subscriber
\*         [k |-> "succ", t], [k |-> "err", t]   a continuation of t is invoked
\*         [k |-> "fail", t, a |-> step]   a backend step of t failed
\*         [k |-> "throw", a |-> "fs" or "callback"]   a TypeError was raised
Ev(k, t, a, b) == [k |-> k, t |-> t, a |-> a, b |-> b]

Str(v) == IF v THEN "true" ELSE "false"

Logged(s, e) ==
  LET s1 == [s EXCEPT !.step = Append(@, e)]
  IN IF e.k = "start" THEN [s1 EXCEPT !.started = Append(@, e.t)]
     ELSE IF e.k \in {"succ", "err"} THEN [s1 EXCEPT !.conts[e.t] = Append(@, e.k)]
     ELSE IF e.k = "next" /\ e.a = "true" /\ e.t > 0
       THEN [s1 EXCEPT !.signalled[e.t] = @ + 1]
     ELSE IF e.k = "fail" THEN [s1 EXCEPT !.failed[e.t] = @ \cup {e.a}]
     ELSE s1

P(t, stp) == [t |-> t, step |-> stp]

\* A backend call is issued: its completion is a later event.
Issue(s, t, stp) == [s EXCEPT !.pend = @ \cup {P(t, stp)}]

Settle(s, t, stp) == [s EXCEPT !.pend = @ \ {P(t, stp)}]

\* The body of the arrow function handed to addTaskToQueue by readFile,
\* writeFile and appendToFile: all three start with this.fs.root.getFile.
\* Reading .root of an undefined this.fs throws.  An uncaught exception ends
\* the handler: once threw is set every later call of the handler is skipped,
\* and the model takes no further step.
\* What was undefined is kept in the event: "fs" (this.fs.root) or "callback"
\* (the result of shift() on an empty tasksQueue).
Throw(s, what) == [Logged(s, Ev("throw", 0, what, "")) EXCEPT !.threw = TRUE]

\* Who called the running deQueueTask: addTaskToQueue calls it right after
\* the push, the subscriber right after a next(true); deQueueTask itself has
\* made one next(false) since.
Via(s) ==
  IF Len(s.step) >= 2 /\ s.step[Len(s.step) - 1].k = "submit" THEN "fast" ELSE "sub"

TaskBody(s, t) ==
  IF s.threw THEN s
  ELSE IF ~s.fs THEN Throw(Logged(s, Ev("start", t, Via(s), "")), "fs")
  ELSE Issue(Logged(s, Ev("start", t, Via(s), "")), t, "getFile")

RECURSIVE next(_, _, _)

\* Variants of deQueueTask with one statement changed.
\* pop() in place of shift():
deQueueTask_pop(s) ==
  IF s.threw THEN s
  ELSE IF s.q = <<>> THEN Throw(next(s, FALSE, 0), "callback")
  ELSE LET callback == s.q[Len(s.q)]
           s1 == [s EXCEPT !.q = SubSeq(@, 1, Len(@) - 1)]
       IN TaskBody(next(s1, FALSE, callback), callback)

\* tasksQueue[0] in place of shift():
deQueueTask_noShift(s) ==
  IF s.threw THEN s
  ELSE IF s.q = <<>> THEN Throw(next(s, FALSE, 0), "callback")
  ELSE LET callback == Head(s.q)
       IN TaskBody(next(s, FALSE, callback), callback)

\* without next(false):
deQueueTask_noNextFalse(s) ==
  IF s.threw THEN s
  ELSE IF s.q = <<>> THEN Throw(s, "callback")
  ELSE LET callback == Head(s.q)
           s1 == [s EXCEPT !.q = Tail(@)]
       IN TaskBody(s1, callback)

\* deQueueTask: shift, next(false), callback().  Calling the undefined result
\* of a shift on an empty array throws.
deQueueTask(s) ==
  IF s.threw THEN s
  ELSE IF s.q = <<>> THEN Throw(next(s, FALSE, 0), "callback")
  ELSE LET callback == Head(s.q)
           s1 == [s EXCEPT !.q = Tail(@)]
       IN TaskBody(next(s1, FALSE, callback), callback)

\* Variant of the observer without the length test.
Subscriber_noLengthCheck(s, canPerformNewTask) ==
  IF s.threw THEN s
  ELSE IF canPerformNewTask THEN deQueueTask(s) ELSE s

\* The observer subscribed in the constructor.
Subscriber(s, canPerformNewTask) ==
  IF s.threw THEN s
  ELSE IF canPerformNewTask /\ Len(s.q) > 0 THEN deQueueTask(s) ELSE s

\* BehaviorSubject.next(v): store the value, then notify the subscriber,
\* whether or not the value changed.  t is the task on whose behalf the call
\* is made (0: initFs).
next(s, v, t) ==
  IF s.threw THEN s
  ELSE Subscriber([Logged(s, Ev("next", t, Str(v), Str(s.sig))) EXCEPT !.sig = v], v)

\* Variants of addTaskToQueue: without the getValue() test, and without the
\* fast path.
addTaskToQueue_noSignalCheck(s, t) ==
  IF s.threw THEN s
  ELSE LET s1 == [s EXCEPT !.q = Append(@, t)]
       IN IF Len(s1.q) = 1 THEN deQueueTask(s1) ELSE s1

addTaskToQueue_noFastPath(s, t) ==
  IF s.threw THEN s ELSE [s EXCEPT !.q = Append(@, t)]

addTaskToQueue(s, t) ==
  IF s.threw THEN s
  ELSE LET s1 == [s EXCEPT !.q = Append(@, t)]
       IN IF Len(s1.q) = 1 /\ s1.sig THEN deQueueTask(s1) ELSE s1

\* readFile / writeFile / appendToFile: create the task and queue it.
\* by = 0 for a call from the page, by = t for a call made inside a
\* continuation of task t.
SubmitTask(s, op, by) ==
  IF s.threw THEN s
  ELSE LET t == Len(s.sub) + 1
           s1 == [Logged(s, Ev("submit", t, op, IF by = 0 THEN "page" ELSE "cont")) EXCEPT
                    !.sub = Append(@, op),
                    !.wpos = Append(@, 0),
                    !.snap = Append(@, <<>>),
                    !.conts = Append(@, <<>>),
                    !.signalled = Append(@, 0),
                    !.failed = Append(@, {})]
       IN addTaskToQueue(s1, t)

readFile(s, by) == SubmitTask(s, "read", by)
writeFile(s, by) == SubmitTask(s, "write", by)
appendToFile(s, by) == SubmitTask(s, "append", by)

CallOp(s, op, by) ==
  IF op = "read" THEN readFile(s, by)
  ELSE IF op = "write" THEN writeFile(s, by)
  ELSE appendToFile(s, by)

RECURSIVE CallAll(_, _, _)
CallAll(s, ops, by) ==
  IF ops = <<>> THEN s ELSE CallAll(CallOp(s, Head(ops), by), Tail(ops), by)

\* A continuation of task t is invoked: kind is "succ" or "err"; what the
\* caller does inside it is the sequence ops of calls back into the handler.
\* (A continuation the caller left out behaves as one that makes no call.)
Invoke(s, t, kind, ops) ==
  IF s.threw THEN s ELSE CallAll(Logged(s, Ev(kind, t, "", "")), ops, t)

\* processError: callback && callback(e); next(true).
processError(s, t, ops) == next(Invoke(s, t, "err", ops), TRUE, t)

\* Variant of initFs that stores the value without notifying.
initFs_noNotify(s) == [s EXCEPT !.fs = TRUE, !.sig = TRUE]

\* initFs: this.fs = fs; next(true).
initFs(s) == next([s EXCEPT !.fs = TRUE], TRUE, 0)

\* reader.onloadend of readFile: next(true), then the success continuation.
readFile_onloadend(s, t, ops) == Invoke(next(s, TRUE, t), t, "succ", ops)

\* fileWriter.onwriteend of writeFile: truncate, clear the handler, the
\* success continuation, next(true).
writeFile_onwriteend(s, t, ops) ==
  next(Invoke(Issue(s, t, "truncate"), t, "succ", ops), TRUE, t)

\* fileWriter.onwriteend of appendToFile: the success continuation, next(true).
appendToFile_onwriteend(s, t, ops) == next(Invoke(s, t, "succ", ops), TRUE, t)

onwriteend(s, t, ops) ==
  IF s.sub[t] = "write" THEN writeFile_onwriteend(s, t, ops)
  ELSE appendToFile_onwriteend(s, t, ops)

\* Variant of fileWriter.onerror: the handler of the first assignment, which
\* calls next(true) itself.
onerror_withNext(s, t, ops) == next(Invoke(s, t, "err", ops), TRUE, t)

\* fileWriter.onerror: the second assignment (onerror = onErrorCallback)
\* replaces the handler that would have called next(true).
onerror(s, t, ops) == Invoke(s, t, "err", ops)

\* The backend.  getFile with {create: true} creates a missing file.
Created(s, t) ==
  IF s.sub[t] # "read" /\ ~s.file.exists THEN [s EXCEPT !.file = Present(<<>>)] ELSE s

\* fileEntry.file hands out a File: the text of the file at that moment.
Snapshot(s, t) == [s EXCEPT !.snap[t] = s.file.text]

\* createWriter hands out a FileWriter at position 0 whose length is the
\* length of the file at that moment; appendToFile seeks to that length.
Positioned(s, t) ==
  [s EXCEPT !.wpos[t] = IF s.sub[t] = "append" THEN Len(s.file.text) ELSE 0]

Blob(s, t) == IF s.sub[t] = "append" THEN AppendText ELSE WriteText

\* The text after blob is written at position pos (a gap is filled with "0").
Overwrite(text, pos, blob) ==
  LET n == IF Len(text) > pos + Len(blob) THEN Len(text) ELSE pos + Len(blob)
  IN [i \in 1..n |-> IF i > pos /\ i <= pos + Len(blob) THEN blob[i - pos]
                      ELSE IF i <= Len(text) THEN text[i] ELSE "0"]

Written(s, t) ==
  [s EXCEPT !.file = Present(Overwrite(s.file.text, s.wpos[t], Blob(s, t))),
            !.wpos[t] = 0]

\* truncate(size): the file is cut, or extended with "0", to size.
Truncate(text, size) ==
  [i \in 1..size |-> IF i <= Len(text) THEN text[i] ELSE "0"]

Truncated(s, t) == [s EXCEPT !.file = Present(Truncate(s.file.text, Len(WriteText)))]

\* The reader hands e.currentTarget.result to onloadend: the text of the
\* File, or null after an error.
Delivered(s, t, ok) ==
  [s EXCEPT !.delivered = Append(@, [t |-> t, ok |-> ok,
                                     text |-> IF ok THEN s.snap[t] ELSE <<>>]),
            !.snap[t] = <<>>]

\* What a continuation may do: call the handler up to MaxCbSubmits times.
SeqsUpTo(n) == UNION {[1..k -> Ops] : k \in 0..n}

CbOps(used) == {ops \in SeqsUpTo(MaxCbSubmits) : used + Len(ops) <= MaxTasks}

Failed(s, t, stp) == Logged(s, Ev("fail", t, stp, ""))

----
\* Variant of the constructor: new BehaviorSubject(true).
Init_readyAtStart ==
  /\ fs = FALSE
  /\ tasksProcessSubject = TRUE
  /\ tasksQueue = <<>>
  /\ submitted = <<>>
  /\ pending = {}
  /\ threw = FALSE
  /\ file \in {Absent, Present(OldText)}
  /\ wpos = <<>>
  /\ snap = <<>>
  /\ delivered = <<>>
  /\ started = <<>>
  /\ conts = <<>>
  /\ signalled = <<>>
  /\ failed = <<>>
  /\ step = <<>>

Init ==
  /\ fs = FALSE
  /\ tasksProcessSubject = FALSE
  /\ tasksQueue = <<>>
  /\ submitted = <<>>
  /\ pending = {}
  /\ threw = FALSE
  /\ file \in {Absent, Present(OldText)}
  /\ wpos = <<>>
  /\ snap = <<>>
  /\ delivered = <<>>
  /\ started = <<>>
  /\ conts = <<>>
  /\ signalled = <<>>
  /\ failed = <<>>
  /\ step = <<>>

\* The page calls a public method.
ReadFile == ~threw /\ Len(submitted) < MaxTasks /\ Commit(readFile(Enter, 0))

WriteFile == ~threw /\ Len(submitted) < MaxTasks /\ Commit(writeFile(Enter, 0))

AppendToFile == ~threw /\ Len(submitted) < MaxTasks /\ Commit(appendToFile(Enter, 0))

\* requestFileSystem delivers the handle.
InitFs == ~threw /\ ~fs /\ Commit(initFs(Enter))

\* getFile succeeded: readFile asks for the File, the writers for a FileWriter.
GetFileSuccess ==
  \E p \in pending :
    /\ ~threw /\ p.step = "getFile"
    /\ submitted[p.t] = "read" => file.exists
    /\ Commit(Issue(Created(Settle(Enter, p.t, "getFile"), p.t), p.t,
                    IF submitted[p.t] = "read" THEN "file" ELSE "createWriter"))

GetFileError ==
  \E p \in pending : \E ops \in CbOps(Len(submitted)) :
    /\ ~threw /\ p.step = "getFile"
    /\ Commit(processError(Failed(Settle(Enter, p.t, "getFile"), p.t, "getFile"), p.t, ops))

\* fileEntry.file succeeded: new FileReader, readAsText.
FileSuccess ==
  \E p \in pending :
    /\ ~threw /\ p.step = "file"
    /\ Commit(Issue(Snapshot(Settle(Enter, p.t, "file"), p.t), p.t, "readAsText"))

\* fileEntry.file failed: the code passed no error callback.
FileError ==
  \E p \in pending :
    /\ ~threw /\ p.step = "file"
    /\ Commit(Failed(Settle(Enter, p.t, "file"), p.t, "file"))

\* The reader finished: loadend follows a load as well as an error.
ReaderLoadEnd ==
  \E p \in pending : \E ok \in BOOLEAN : \E ops \in CbOps(Len(submitted)) :
    /\ ~threw /\ p.step = "readAsText"
    /\ LET s0 == Delivered(Settle(Enter, p.t, "readAsText"), p.t, ok)
           s1 == IF ok THEN s0 ELSE Failed(s0, p.t, "readAsText")
       IN Commit(readFile_onloadend(s1, p.t, ops))

\* createWriter succeeded: the handlers are installed and write(blob) issued.
CreateWriterSuccess ==
  \E p \in pending :
    /\ ~threw /\ p.step = "createWriter"
    /\ Commit(Issue(Positioned(Settle(Enter, p.t, "createWriter"), p.t), p.t, "write"))

CreateWriterError ==
  \E p \in pending : \E ops \in CbOps(Len(submitted)) :
    /\ ~threw /\ p.step = "createWriter"
    /\ Commit(processError(Failed(Settle(Enter, p.t, "createWriter"), p.t, "createWriter"),
                           p.t, ops))

\* The write succeeded: writeend.
WriteEnd ==
  \E p \in pending : \E ops \in CbOps(Len(submitted)) :
    /\ ~threw /\ p.step = "write"
    /\ Commit(onwriteend(Written(Settle(Enter, p.t, "write"), p.t), p.t, ops))

\* The write failed: error, then writeend.
WriteError ==
  \E p \in pending : \E ops1 \in CbOps(Len(submitted)) :
    \E ops2 \in CbOps(Len(submitted) + Len(ops1)) :
      /\ ~threw /\ p.step = "write"
      /\ LET s0 == Failed(Settle(Enter, p.t, "write"), p.t, "write")
         IN Commit(onwriteend(onerror(s0, p.t, ops1), p.t, ops2))

\* The truncate of writeFile succeeded: writeend, whose handler is null.
TruncateEnd ==
  \E p \in pending :
    /\ ~threw /\ p.step = "truncate"
    /\ Commit(Truncated(Settle(Enter, p.t, "truncate"), p.t))

\* The truncate of writeFile failed: error (onerror is still set), then
\* writeend, whose handler is null.
TruncateError ==
  \E p \in pending : \E ops \in CbOps(Len(submitted)) :
    /\ ~threw /\ p.step = "truncate"
    /\ Commit(onerror(Failed(Settle(Enter, p.t, "truncate"), p.t, "truncate"), p.t, ops))

Next ==
  \/ ReadFile
  \/ WriteFile
  \/ AppendToFile
  \/ InitFs
  \/ GetFileSuccess
  \/ GetFileError
  \/ FileSuccess
  \/ FileError
  \/ ReaderLoadEnd
  \/ CreateWriterSuccess
  \/ CreateWriterError
  \/ WriteEnd
  \/ WriteError
  \/ TruncateEnd
  \/ TruncateError

Spec == Init /\ [][Next]_vars

TypeOK ==
  /\ fs \in BOOLEAN
  /\ tasksProcessSubject \in BOOLEAN
  /\ Len(submitted) <= MaxTasks
  /\ \A i \in 1..Len(tasksQueue) : tasksQueue[i] \in 1..Len(submitted)
  /\ \A p \in pending : p.t \in 1..Len(submitted)

----
\* Fairness: the backend delivers the handle and completes every call it was
\* given, with a success or with a failure.
FairSpec ==
  /\ Spec
  /\ WF_vars(InitFs)
  /\ WF_vars(GetFileSuccess \/ GetFileError)
  /\ WF_vars(FileSuccess \/ FileError)
  /\ WF_vars(ReaderLoadEnd)
  /\ WF_vars(CreateWriterSuccess \/ CreateWriterError)
  /\ WF_vars(WriteEnd \/ WriteError)
  /\ WF_vars(TruncateEnd \/ TruncateError)

----
\* Vocabulary of the properties.
Tasks == 1..Len(submitted)

Starts(t) == Cardinality({i \in 1..Len(started) : started[i] = t})

\* Drained and not yet signalled completion.
Executing == {t \in Tasks : Starts(t) > signalled[t]}

\* A backend step of the task body failed (the truncate that writeFile issues
\* from its writeend handler is not part of the span of the task).
BodySteps == {"getFile", "file", "readAsText", "createWriter", "write"}

BodyFailed(t) == failed[t] \cap BodySteps # {}

\* The backend has nothing more to deliver for the body of task t.
BodyOver(t) ==
  /\ Starts(t) > 0
  /\ \A p \in pending : p.t = t => p.step = "truncate"

----
\* C1 (single-flight): in every reachable state at most one task has been
\* started by deQueueTask and has not yet called next(true).
C1_SingleFlight == Cardinality(Executing) <= 1

\* One task executes while another waits and a third has completed.
C1_Witness ==
  /\ Cardinality(Executing) = 1
  /\ tasksQueue # <<>>
  /\ \E t \in Tasks : Starts(t) = 1 /\ signalled[t] = 1

\* C2 (FIFO): the order in which task bodies are invoked is the order of
\* submission: the i-th task started is the i-th task submitted, whichever
\* of addTaskToQueue and the subscriber called deQueueTask.
C2_Fifo == \A i \in 1..Len(started) : started[i] = i

\* Three tasks have started, the last one by the fast path, the ones before
\* it each followed by a completion that rearmed the signal.
C2_Witness ==
  /\ Len(started) >= 3
  /\ step # <<>>
  /\ step[Len(step)].k = "start" /\ step[Len(step)].a = "fast"
  /\ Len(tasksQueue) = 0

\* C3 (no double execution): no task body is invoked more than once, also
\* when tasks are submitted from inside continuations.
C3_NoDoubleStart == \A t \in Tasks : Starts(t) <= 1

\* A continuation submitted a task in the handler that then set the signal to
\* true, and the subscriber started that very task, after an earlier task had
\* been started too.
C3_Witness ==
  /\ Len(started) >= 2
  /\ \E i, j, k \in 1..Len(step) :
       /\ i < j /\ j < k
       /\ step[i].k = "submit" /\ step[i].b = "cont"
       /\ step[j].k = "next" /\ step[j].a = "true"
       /\ step[k].k = "start" /\ step[k].t = step[i].t /\ step[k].a = "sub"

\* C4 (no task is dropped): if the backend delivers the handle and completes
\* every call, every submitted task is eventually started and eventually
\* calls next(true).
C4_NoTaskDropped ==
  \A t \in 1..MaxTasks :
    (Len(submitted) >= t) ~> (Len(submitted) >= t /\ Starts(t) >= 1 /\ signalled[t] >= 1)

\* C4, as a property of states: a submitted task that has not called
\* next(true) is never stuck.  Either initFs is still to come or a backend
\* call of a task body is in flight; these are the events the assumption of
\* C4 guarantees, and without one of them no handler that could start or
\* complete the task ever runs (a call from the page only pushes while the
\* signal reads false).
C4_NeverStuck ==
  \A t \in Tasks :
    signalled[t] = 0 => (~fs \/ \E p \in pending : p.step \in BodySteps)

\* C5 (readiness signal): the signal reads false before initFs and while a
\* task is between its start and its next(true); it reads true only when the
\* handle is stored and no task is executing.
C5_SignalFalseWhileBusy ==
  /\ ~fs => ~tasksProcessSubject
  /\ Executing # {} => ~tasksProcessSubject
  /\ tasksProcessSubject => fs /\ Executing = {}

\* A task is in the middle of its write, the handle stored, the signal false.
C5_Witness ==
  /\ fs /\ ~tasksProcessSubject
  /\ \E p \in pending : p.step = "write" /\ p.t \in Executing

\* C6 (no stall on error): a task one of whose backend steps failed (getFile,
\* file, the reader, createWriter or the write) has set the signal back to
\* true by the end of the handler of that failure, and the task submitted
\* next, if any, has been started.
C6_NoStallOnError ==
  \A t \in Tasks :
    BodyFailed(t) => /\ signalled[t] >= 1
                     /\ t + 1 \in Tasks => Starts(t + 1) >= 1

\* C7 (exactly-once completion signal): every started task calls next(true)
\* exactly once: never twice, and once when its backend calls are over, on
\* the success path and on every error path.
C7_ExactlyOnceSignal ==
  \A t \in Tasks : /\ signalled[t] <= 1
                   /\ BodyOver(t) => signalled[t] = 1

\* C8 (pre-readiness queuing): before initFs no task has started and every
\* submitted task is in the queue, in submission order; the initFs step, when
\* the queue is not empty, starts the head task in that very step through
\* the subscriber; tasks start in submission order.
C8_PreReadiness ==
  [][ /\ ~fs => /\ started = <<>>
                /\ pending = {}
                /\ tasksQueue = [i \in 1..Len(submitted) |-> i]
      /\ (~fs /\ fs' /\ tasksQueue # <<>>) =>
            /\ started' = <<Head(tasksQueue)>>
            /\ tasksQueue' = Tail(tasksQueue)
            /\ step' = << Ev("next", 0, "true", "false"),
                          Ev("next", Head(tasksQueue), "false", "true"),
                          Ev("start", Head(tasksQueue), "sub", "") >>
      /\ \A i \in 1..Len(started') : started'[i] = i
    ]_vars

\* initFs has just started the head of a queue of at least two tasks, and the
\* rest wait.
C8_Witness ==
  /\ fs /\ started = <<1>> /\ Len(tasksQueue) >= 1
  /\ Len(step) = 3 /\ step[1] = Ev("next", 0, "true", "false")
  /\ \E p \in pending : p.t = 1 /\ p.step = "getFile"

\* The value of the signal, and the length of the queue, just before the
\* i-th event of a handler that was entered with value sig0 and length len0.
SigBefore(sig0, stp, i) ==
  LET N == {j \in 1..(i - 1) : stp[j].k = "next"}
  IN IF N = {} THEN sig0
     ELSE stp[CHOOSE j \in N : \A m \in N : m <= j].a = "true"

QLenBefore(len0, stp, i) ==
  len0 + Cardinality({j \in 1..(i - 1) : stp[j].k = "submit"})
       - Cardinality({j \in 1..(i - 1) : stp[j].k = "start"})

\* C9 (fast path): a task submitted while the signal reads true and the queue
\* is empty is started inside the submitting call: the call is followed at
\* once by next(false), made while the value was true, and by the body of
\* that task, with no next(true) in between.
C9_FastPath ==
  [][ \A i \in 1..Len(step') :
        ( /\ step'[i].k = "submit"
          /\ SigBefore(tasksProcessSubject, step', i)
          /\ QLenBefore(Len(tasksQueue), step', i) = 0 )
        => /\ i + 2 <= Len(step')
           /\ step'[i + 1] = Ev("next", step'[i].t, "false", "true")
           /\ step'[i + 2] = Ev("start", step'[i].t, "fast", "")
    ]_vars

\* The page submitted a task to an idle handler that had already run a task,
\* and the call started it.
C9_Witness ==
  /\ Len(step) = 3
  /\ step[1].k = "submit" /\ step[1].b = "page" /\ step[1].t >= 2
  /\ step[2] = Ev("next", step[1].t, "false", "true")
  /\ step[3] = Ev("start", step[1].t, "fast", "")
  /\ ~tasksProcessSubject /\ tasksQueue = <<>>

\* C10 (error locality): every task has exactly one of its two continuations
\* invoked, exactly once, and a task one of whose backend steps failed has
\* only its error continuation invoked.
C10_ErrorLocality ==
  \A t \in Tasks : /\ Len(conts[t]) <= 1
                   /\ BodyOver(t) => Len(conts[t]) = 1
                   /\ BodyFailed(t) => conts[t] = <<"err">>

\* C11 (overwrite then append): when the tasks submitted are writeFile,
\* appendToFile and readFile of the same file, in that order, and no backend
\* step has failed, the read returns WriteText followed by AppendText.
C11_OverwriteThenAppend ==
  \A i \in 1..Len(delivered) :
    ( /\ delivered[i].ok /\ delivered[i].t = 3
      /\ submitted[1] = "write" /\ submitted[2] = "append" /\ submitted[3] = "read"
      /\ \A t \in 1..3 : failed[t] = {} )
    => delivered[i].text = WriteText \o AppendText

\* C12 (overwrite then read): a readFile submitted right after a writeFile
\* that succeeded (its success continuation ran and none of its backend steps
\* has failed) returns exactly WriteText, whatever the file held before.
C12_OverwriteThenRead ==
  \A i \in 1..Len(delivered) :
    ( /\ delivered[i].ok /\ delivered[i].t >= 2
      /\ submitted[delivered[i].t - 1] = "write"
      /\ conts[delivered[i].t - 1] = <<"succ">>
      /\ failed[delivered[i].t - 1] = {} )
    => delivered[i].text = WriteText

\* C13 (continuations fire in submission order): when a continuation of a
\* task is invoked, every task submitted before it has had a continuation
\* invoked and no task submitted after it has.
C13_ContinuationOrder ==
  \A i \in 1..Len(step) :
    step[i].k \in {"succ", "err"} =>
      \A u \in Tasks : /\ u < step[i].t => conts[u] # <<>>
                       /\ u > step[i].t => conts[u] = <<>>

\* C14 (no initialization, no progress): as long as initFs has not been
\* called the signal reads false, no task body has been invoked, no backend
\* call is in flight and no continuation of any task has been invoked,
\* however many tasks were submitted.
C14_StallWithoutInit ==
  ~fs => /\ ~tasksProcessSubject
         /\ started = <<>>
         /\ pending = {}
         /\ \A t \in Tasks : conts[t] = <<>> /\ signalled[t] = 0
         /\ \A i \in 1..Len(step) : step[i].k = "submit"

\* initFs has not been called and at least two tasks wait.
C14_Witness == ~fs /\ Len(tasksQueue) >= 2 /\ Len(submitted) = Len(tasksQueue)

\* C15 (no drain of an empty queue): deQueueTask never finds the queue empty:
\* the TypeError of calling the undefined result of shift() is never raised.
C15_NoEmptyDrain ==
  \A i \in 1..Len(step) : step[i].k = "throw" => step[i].a # "callback"

\* A next(true) found the queue empty (the subscriber did not drain), and the
\* last drain before it had emptied the queue.
C15_Witness ==
  /\ tasksQueue = <<>> /\ tasksProcessSubject
  /\ Len(started) >= 2
  /\ \E i \in 1..Len(step) : step[i].k = "next" /\ step[i].a = "true"

\* C16 (continuation before the next start): the continuation of a task is
\* invoked before the body of the task submitted after it: never after it
\* inside one handler, and not in a later handler.
C16_ContinuationBeforeNextStart ==
  /\ \A i, j \in 1..Len(step) :
       ( /\ step[i].k = "start"
         /\ step[j].k \in {"succ", "err"}
         /\ step[j].t < step[i].t ) => j < i
  /\ \A t \in Tasks : (t + 1 \in Tasks /\ Starts(t + 1) >= 1) => conts[t] # <<>>

\* C17 (idle implies empty queue): at the end of every handler, if the signal
\* reads true the queue is empty.
C17_IdleImpliesEmpty == tasksProcessSubject => tasksQueue = <<>>

\* The handler is idle again after a completion whose continuation submitted
\* nothing, tasks having run before.
C17_Witness ==
  /\ tasksProcessSubject /\ tasksQueue = <<>> /\ Executing = {}
  /\ Len(started) = Len(submitted) /\ Len(submitted) >= 2
  /\ \E i \in 1..Len(step) : step[i].k \in {"succ", "err"}

\* C18 (no task without the handle): a task body is invoked only once initFs
\* has stored the handle: this.fs.root never throws, and whenever a body has
\* been invoked or a backend call is in flight the handle is stored.
C18_NoTaskWithoutHandle ==
  /\ \A i \in 1..Len(step) : step[i].k = "throw" => step[i].a # "fs"
  /\ (started # <<>> \/ pending # {}) => fs

\* A task submitted before initFs has been started by the subscriber in the
\* initFs handler and its getFile is in flight.
C18_Witness ==
  /\ fs /\ Len(step) >= 3
  /\ step[1] = Ev("next", 0, "true", "false")
  /\ step[Len(step)].k = "start" /\ step[Len(step)].a = "sub"
  /\ P(step[Len(step)].t, "getFile") \in pending

\* C19 (the signal is never set to the value it holds): every next(v) is made
\* while the subject holds the other value, so notifying on every call and
\* notifying on change only give the same notifications.
C19_NextAlwaysChanges ==
  \A i \in 1..Len(step) : step[i].k = "next" => step[i].a # step[i].b

\* One handler made both a next(true) and a next(false): a completion with a
\* task waiting.
C19_Witness ==
  \E i, j \in 1..Len(step) :
    /\ i < j
    /\ step[i].k = "next" /\ step[i].a = "true" /\ step[i].t > 0
    /\ step[j].k = "next" /\ step[j].a = "false"

====
